---------------------------- MODULE Spec2Model ----------------------------
(***************************************************************************)
(* Model of generate_rss.py: the home-page crawler that classifies links,  *)
(* extracts post metadata and writes an RSS document.                      *)
(*                                                                         *)
(* Text is modelled at character level: a Python str is a sequence of      *)
(* one-character strings.  A character outside ASCII is written by its     *)
(* code point ("U+2026" is the single character HORIZONTAL ELLIPSIS).      *)
(* The parsed markup that BeautifulSoup hands to the program is modelled   *)
(* as a record of the elements the program reads.                          *)
(***************************************************************************)
EXTENDS Naturals, Integers, Sequences, FiniteSets, TLC

VARIABLES
    pc,       \* position of main(): start, loop, fetched, build, done, aborted
    urls,     \* main: urls (candidate list returned by the extractor)
    idx,      \* main: number of candidates the for-loop has taken
    page,     \* parse_post: post_html as parsed, while pc = "fetched"
    items,    \* main: items
    seen,     \* main: seen
    fetched,  \* log of the calls of fetch(): the URL and whether it returned
    outfile,  \* content of OUTFILE
    writes,   \* how many times OUTFILE was written
    error,    \* the exception that reached the top level, if any
    arg,      \* input of the function under test (function specifications)
    res       \* its result

vars == <<pc, urls, idx, page, items, seen, fetched, outfile, writes, error, arg, res>>

----------------------------------------------------------------------------
(* Python str operations, on sequences of characters                       *)

Range(s) == {s[i] : i \in 1..Len(s)}

StartsWith(s, p) == Len(s) >= Len(p) /\ SubSeq(s, 1, Len(p)) = p

EndsWith(s, p) == Len(s) >= Len(p) /\ SubSeq(s, Len(s) - Len(p) + 1, Len(s)) = p

\* p in s
Contains(s, p) == \E i \in 1..(Len(s) + 1) : i + Len(p) - 1 <= Len(s) /\ SubSeq(s, i, i + Len(p) - 1) = p

\* s.split(c, 1)[0]: everything before the first c, all of s when c is absent
SplitFirst(s, c) ==
    IF c \in Range(s)
    THEN LET k == CHOOSE i \in 1..Len(s) : s[i] = c /\ \A j \in 1..(i - 1) : s[j] # c
         IN  SubSeq(s, 1, k - 1)
    ELSE s

\* s.lstrip(chars) / s.rstrip(chars) / s.strip(chars)
LStrip(s, cs) ==
    LET keep == {i \in 1..Len(s) : s[i] \notin cs}
    IN  IF keep = {} THEN <<>>
        ELSE SubSeq(s, CHOOSE i \in keep : \A j \in keep : i <= j, Len(s))

RStrip(s, cs) ==
    LET keep == {i \in 1..Len(s) : s[i] \notin cs}
    IN  IF keep = {} THEN <<>>
        ELSE SubSeq(s, 1, CHOOSE i \in keep : \A j \in keep : i >= j)

Strip(s, cs) == LStrip(RStrip(s, cs), cs)

\* the characters str.strip() removes (those the inputs here can hold)
Whitespace == {" ", "\n", "\t"}

UpperLetters == <<"A","B","C","D","E","F","G","H","I","J","K","L","M",
                  "N","O","P","Q","R","S","T","U","V","W","X","Y","Z">>

LowerLetters == <<"a","b","c","d","e","f","g","h","i","j","k","l","m",
                  "n","o","p","q","r","s","t","u","v","w","x","y","z">>

LowerChar(c) ==
    IF c \in Range(UpperLetters)
    THEN LowerLetters[CHOOSE i \in 1..Len(UpperLetters) : UpperLetters[i] = c]
    ELSE c

\* s.lower()
Lower(s) == [i \in 1..Len(s) |-> LowerChar(s[i])]

\* "".join(parts)
RECURSIVE Concat(_)
Concat(parts) == IF parts = <<>> THEN <<>> ELSE Head(parts) \o Concat(Tail(parts))

----------------------------------------------------------------------------
(* Configuration                                                           *)

SITE == <<"h","t","t","p","s",":","/","/","u","l","t","i","m","a","s",
          "g","e","e","k",".","c","o","m","/">>

BLOCKED_SLUGS ==
    { <<"l","o","-","u","l","t","i","m","o">>,
      <<"n","o","t","a","-","d","e","-","v","o","z">>,
      <<"c","o","n","t","a","c","t","o">>,
      <<"a","b","o","u","t">> }

BLOCKED_PREFIXES ==
    { <<"c","a","t","e","g","o","r","y","/">>,
      <<"t","a","g","/">>,
      <<"p","a","g","e","/">>,
      <<"a","u","t","h","o","r","/">>,
      <<"w","p","-">> }

ASSET_EXTENSIONS ==
    { <<".","j","p","g">>, <<".","j","p","e","g">>, <<".","p","n","g">>,
      <<".","w","e","b","p">>, <<".","g","i","f">>, <<".","s","v","g">>,
      <<".","p","d","f">> }

----------------------------------------------------------------------------
(* URL classifier                                                          *)

normalize_url(url) ==
    IF url = <<>> THEN url
    ELSE SplitFirst(SplitFirst(url, "#"), "?")

\* path = clean[len(SITE):].strip("/")
PostPath(url) ==
    LET clean == normalize_url(url)
    IN  Strip(SubSeq(clean, Len(SITE) + 1, Len(clean)), {"/"})

HasBlockedPrefix(path) == \E p \in BLOCKED_PREFIXES : StartsWith(path, p)

HasPagination(path) == Contains(path, <<"/","p","a","g","e","/">>)

HasAssetExtension(path) == \E ext \in ASSET_EXTENSIONS : EndsWith(path, ext)

is_post_url(url) ==
    IF url = <<>> \/ ~StartsWith(url, SITE) THEN FALSE
    ELSE LET path == PostPath(url)
         IN  IF path = <<>> THEN FALSE
             ELSE IF HasBlockedPrefix(path) THEN FALSE
             ELSE IF HasPagination(path) THEN FALSE
             ELSE IF path \in BLOCKED_SLUGS THEN FALSE
             ELSE IF HasAssetExtension(path) THEN FALSE
             ELSE TRUE

----------------------------------------------------------------------------
(* Home-page link extractor.  The home page is modelled by what            *)
(* soup.select("a[href]") yields: the href values in document order.       *)

AppendCandidateRaw(acc, href) == Append(acc, href)

\* urls.append(normalize_url(href))
AppendCandidate(acc, href) == Append(acc, normalize_url(href))

\* first loop of extract_post_urls_from_home
RECURSIVE CollectUrls(_, _)
CollectUrls(hrefs, acc) ==
    IF hrefs = <<>> THEN acc
    ELSE LET href == Strip(Head(hrefs), Whitespace)
         IN  CollectUrls(Tail(hrefs),
                         IF is_post_url(href) THEN AppendCandidate(acc, href) ELSE acc)

RECURSIVE DedupeLoop(_, _, _)
DedupeLoop(us, seenUrls, out) ==
    IF us = <<>> THEN out
    ELSE IF Head(us) \in seenUrls
         THEN DedupeLoop(Tail(us), seenUrls, out)
         ELSE DedupeLoop(Tail(us), seenUrls \cup {Head(us)}, Append(out, Head(us)))

DedupeKeepLast(us) ==
    LET lastAt == {i \in 1..Len(us) : \A j \in (i + 1)..Len(us) : us[j] # us[i]}
        F[k \in 0..Len(us)] ==
            IF k = 0 THEN <<>>
            ELSE IF k \in lastAt THEN Append(F[k - 1], us[k]) ELSE F[k - 1]
    IN  F[Len(us)]

\* second loop of extract_post_urls_from_home ("dedupe conservando orden")
DedupeKeepOrder(us) == DedupeLoop(us, {}, <<>>)

extract_post_urls_from_home(hrefs) == DedupeKeepOrder(CollectUrls(hrefs, <<>>))

----------------------------------------------------------------------------
(* Inputs of the function specifications                                    *)

MaxSegs == 3       \* path segments of a classified URL
MaxLinks == 4      \* hyperlinks on a home page

OTHER_SITE == <<"h","t","t","p",":","/","/","o",".","c","o","m","/">>

SegmentPool ==
    { <<"c","a","t","e","g","o","r","y">>, <<"t","a","g">>, <<"t","a","g","s">>,
      <<"p","a","g","e">>, <<"a","u","t","h","o","r">>,
      <<"w","p","-","j","s","o","n">>, <<"c","o","n","t","a","c","t","o">>,
      <<"x">>, <<"x",".","j","p","g">> }

\* "/".join(segs)
RECURSIVE JoinSlash(_)
JoinSlash(segs) ==
    IF segs = <<>> THEN <<>>
    ELSE IF Len(segs) = 1 THEN Head(segs)
    ELSE Head(segs) \o <<"/">> \o JoinSlash(Tail(segs))

SeqsUpTo(S, n) == UNION {[1..k -> S] : k \in 0..n}

UrlSuffixes == { <<>>, <<"/">>, <<"?","p","=","/","p","a","g","e","/">>, <<"/","#","f">> }

UrlInputs ==
    { base \o JoinSlash(segs) \o suf :
        base \in {SITE, OTHER_SITE}, segs \in SeqsUpTo(SegmentPool, MaxSegs),
        suf \in UrlSuffixes }

POST_A == SITE \o <<"a","/">>
POST_B == SITE \o <<"b","/">>
POST_C == SITE \o <<"c","&","d","/">>

HrefPool ==
    { POST_A, POST_B, POST_C,
      POST_A \o <<"?","u","t","m","=","1">>,
      POST_B \o <<"#","f">>,
      <<" ">> \o POST_B \o <<"\n">>,
      SITE \o <<"c","a","t","e","g","o","r","y","/","x">>,
      SITE \o <<"c","o","n","t","a","c","t","o","/">>,
      OTHER_SITE \o <<"a","/">> }

HomePages == SeqsUpTo(HrefPool, MaxLinks)

----------------------------------------------------------------------------
(* Function specifications: one call of the function on an input           *)

\* OUTFILE as the run finds it
OldFile == [kind |-> "old"]

IdleMain ==
    /\ urls = <<>> /\ idx = 0 /\ page = "none" /\ items = <<>> /\ seen = {}
    /\ fetched = <<>> /\ outfile = OldFile /\ writes = 0 /\ error = "none"

mainVars == <<urls, idx, page, items, seen, fetched, outfile, writes, error>>

InitUrl == pc = "call" /\ arg \in UrlInputs /\ res = "none" /\ IdleMain

CallIsPostUrl ==
    /\ pc = "call"
    /\ res' = is_post_url(arg)
    /\ pc' = "ret"
    /\ UNCHANGED <<arg, mainVars>>

SpecUrl == InitUrl /\ [][CallIsPostUrl]_vars

InitExtract == pc = "call" /\ arg \in HomePages /\ res = "none" /\ IdleMain

CallExtract ==
    /\ pc = "call"
    /\ res' = extract_post_urls_from_home(arg)
    /\ pc' = "ret"
    /\ UNCHANGED <<arg, mainVars>>

SpecExtract == InitExtract /\ [][CallExtract]_vars

----------------------------------------------------------------------------
(* Date parser                                                             *)

MONTHS_ES ==
    { <<<<"e","n","e","r","o">>, 1>>, <<<<"f","e","b","r","e","r","o">>, 2>>, <<<<"m","a","r","z","o">>, 3>>,
      <<<<"a","b","r","i","l">>, 4>>, <<<<"m","a","y","o">>, 5>>, <<<<"j","u","n","i","o">>, 6>>,
      <<<<"j","u","l","i","o">>, 7>>, <<<<"a","g","o","s","t","o">>, 8>>,
      <<<<"s","e","p","t","i","e","m","b","r","e">>, 9>>, <<<<"s","e","t","i","e","m","b","r","e">>, 9>>,
      <<<<"o","c","t","u","b","r","e">>, 10>>, <<<<"n","o","v","i","e","m","b","r","e">>, 11>>,
      <<<<"d","i","c","i","e","m","b","r","e">>, 12>> }

Digits == <<"0","1","2","3","4","5","6","7","8","9">>

\* \d
DigitChars == Range(Digits)

\* [a-z] and the accented letters U+00E1 U+00E9 U+00ED U+00F3 U+00FA U+00F1, and
\* under re.IGNORECASE their capitals
MonthLetters ==
    Range(LowerLetters) \cup Range(UpperLetters)
        \cup {"U+00E1", "U+00E9", "U+00ED", "U+00F3", "U+00FA", "U+00F1"}
        \cup {"U+00C1", "U+00C9", "U+00CD", "U+00D3", "U+00DA", "U+00D1"}

DigitVal(c) == (CHOOSE i \in 1..Len(Digits) : Digits[i] = c) - 1

\* int(s) of a string of decimal digits
RECURSIVE ToInt(_)
ToInt(s) == IF s = <<>> THEN 0 ELSE 10 * ToInt(SubSeq(s, 1, Len(s) - 1)) + DigitVal(s[Len(s)])

\* how many characters from position j on are of the class; \s is Whitespace (a greedy repetition)
RunAt(s, j, cls) ==
    LET stops == {k \in j..Len(s) : s[k] \notin cls}
    IN  IF stops = {} THEN (IF j > Len(s) THEN 0 ELSE Len(s) + 1 - j)
        ELSE (CHOOSE k \in stops : \A m \in stops : k <= m) - j

\* The match of (\d{1,2})\s+([a-z...]+)\s*,\s*(\d{4}) that starts at position i.
\* The character classes are disjoint, so the greedy choice at each repetition
\* is the only one a match can use.
NoMatch == [ok |-> FALSE, g1 |-> <<>>, g2 |-> <<>>, g3 |-> <<>>]

\* (\d{4}) from position f
MatchYear(s, i, a, b, c, f) ==
    IF RunAt(s, f, DigitChars) >= 4
    THEN [ok |-> TRUE, g1 |-> SubSeq(s, i, a - 1), g2 |-> SubSeq(s, b, c - 1),
          g3 |-> SubSeq(s, f, f + 3)]
    ELSE NoMatch

\* , at position d, then \s*
MatchComma(s, i, a, b, c, d) ==
    IF d <= Len(s) /\ s[d] = ","
    THEN MatchYear(s, i, a, b, c, d + 1 + RunAt(s, d + 1, Whitespace))
    ELSE NoMatch

\* ([a-z...]+) from position b, then \s*
MatchMonth(s, i, a, b, nl) ==
    IF nl >= 1
    THEN MatchComma(s, i, a, b, b + nl, b + nl + RunAt(s, b + nl, Whitespace))
    ELSE NoMatch

\* \s+ from position a
MatchSpace(s, i, a, ns) ==
    IF ns >= 1 THEN MatchMonth(s, i, a, a + ns, RunAt(s, a + ns, MonthLetters))
    ELSE NoMatch

\* (\d{1,2}) from position i: nd digits follow
MatchDay(s, i, nd) ==
    IF nd >= 2 THEN MatchSpace(s, i, i + 2, RunAt(s, i + 2, Whitespace))
    ELSE IF nd = 1 THEN MatchSpace(s, i, i + 1, RunAt(s, i + 1, Whitespace))
    ELSE NoMatch

MatchAt(s, i) == MatchDay(s, i, RunAt(s, i, DigitChars))

FirstMatch(s, hits) ==
    IF hits = {} THEN NoMatch
    ELSE MatchAt(s, CHOOSE i \in hits : \A j \in hits : i <= j)

\* re.search: the match at the leftmost position that has one
ReSearch(s) == FirstMatch(s, {i \in 1..Len(s) : MatchAt(s, i).ok})

IsLeap(y) == (y % 4 = 0 /\ y % 100 # 0) \/ y % 400 = 0

DaysInMonth(y, m) ==
    IF m = 2 THEN (IF IsLeap(y) THEN 29 ELSE 28)
    ELSE IF m \in {4, 6, 9, 11} THEN 30 ELSE 31

\* datetime's constructor raises ValueError outside these ranges
ValidDate(y, m, d) ==
    y >= 1 /\ y <= 9999 /\ m >= 1 /\ m <= 12 /\ d >= 1 /\ d <= DaysInMonth(y, m)

\* dt.datetime(year, mon, day, 12, 0, 0, tzinfo=tz_ar).astimezone(utc): 12:00 at
\* UTC-3 is 15:00 UTC of the same day
MiddayArgentinaUtc(y, m, d) == [year |-> y, month |-> m, day |-> d, hour |-> 12 + 3]

\* line 140: the constructor is called with whatever the pattern captured
MakeDate(y, m, d) ==
    IF ValidDate(y, m, d)
    THEN [kind |-> "datetime", value |-> MiddayArgentinaUtc(y, m, d)]
    ELSE [kind |-> "raise", exc |-> "ValueError"]

MonthNumber(found, year, day) ==
    IF found = {} THEN [kind |-> "None"]
    ELSE MakeDate(year, (CHOOSE e \in found : TRUE)[2], day)

\* lines 130-140
DateOfMatch(day, mon_name, year) ==
    MonthNumber({e \in MONTHS_ES : e[1] = mon_name}, year, day)

MatchedDate(m) ==
    IF ~m.ok THEN [kind |-> "None"]
    ELSE DateOfMatch(ToInt(m.g1), Lower(m.g2), ToInt(m.g3))

parse_date_es(text) == MatchedDate(ReSearch(text))

----------------------------------------------------------------------------
(* Post extractor.  A fetched page is modelled by what the program reads    *)
(* from the parsed markup: the content attribute of the meta tags it looks  *)
(* up (<<>> when the tag or the attribute is missing), and the text nodes,  *)
(* in document order, of <title>, the first <h1>, the first <p> and the     *)
(* rest of the document (<<>> when the element is missing).                 *)

MAX_ITEMS == 2     \* line 13 sets 25; scaled for the model
DESC_MAX == 3      \* line 195 uses 300; scaled for the model

ELLIPSIS == "U+2026"

\* dt.datetime.now(dt.timezone.utc): one reading of the clock
NOW == [year |-> 2026, month |-> 11, day |-> 4, hour |-> 10]

\* email.utils.format_datetime: the fields of the RFC 2822 date, in its order
format_datetime(t) == <<t.day, t.month, t.year, t.hour, "+0000">>

RECURSIVE JoinWith(_, _)
JoinWith(parts, sep) ==
    IF parts = <<>> THEN <<>>
    ELSE IF Len(parts) = 1 THEN Head(parts)
    ELSE Head(parts) \o sep \o JoinWith(Tail(parts), sep)

\* Tag.get_text(sep, strip=True): every text node stripped, the empty ones
\* dropped, the rest joined by sep
get_text(nodes, sep) ==
    JoinWith(SelectSeq([i \in 1..Len(nodes) |-> Strip(nodes[i], Whitespace)],
                       LAMBDA n : n # <<>>), sep)

\* get_meta_property / get_meta_name
get_meta(content) == Strip(content, Whitespace)

FirstNonEmpty(a, b) == IF a # <<>> THEN a ELSE b

\* h1 and h1.get_text(strip=True) -> h1.get_text(" ", strip=True)
ElementTitle(nodes) ==
    IF get_text(nodes, <<>>) # <<>> THEN get_text(nodes, <<" ">>) ELSE <<>>

\* Title: OG -> h1 -> title
ResolveTitle(pg) ==
    FirstNonEmpty(FirstNonEmpty(get_meta(pg.og_title), ElementTitle(pg.h1)),
                  ElementTitle(pg.title))

\* Description: OG -> meta description -> first paragraph
ResolveDesc(pg) ==
    FirstNonEmpty(FirstNonEmpty(get_meta(pg.og_description), get_meta(pg.description)),
                  get_text(pg.p, <<" ">>))

CutNoRStrip(d) ==
    IF Len(d) > DESC_MAX THEN Append(SubSeq(d, 1, DESC_MAX), ELLIPSIS) ELSE d

CutOffByOne(d) ==
    IF Len(d) >= DESC_MAX
    THEN Append(RStrip(SubSeq(d, 1, DESC_MAX), Whitespace), ELLIPSIS)
    ELSE d

\* lines 195-196
Cut(d) ==
    IF Len(d) > DESC_MAX
    THEN Append(RStrip(SubSeq(d, 1, DESC_MAX), Whitespace), ELLIPSIS)
    ELSE d

\* lines 194-196
TruncateDesc(desc) == Cut(Strip(desc, Whitespace))

\* soup.get_text("\n", strip=True)
TextAll(pg) == get_text(pg.title \o pg.h1 \o pg.p \o pg.rest, <<"\n">>)

NoRecord == [kind |-> "None"]

parse_post_reraise == [kind |-> "raise", exc |-> "RequestException"]

\* lines 159-161: except Exception -> warning, return None
parse_post_except == NoRecord

\* lines 203-212
PostRecord(post_url, title, desc, image_url, parsed) ==
    IF parsed.kind = "raise" THEN parsed
    ELSE [kind |-> "record",
          title |-> title, link |-> post_url, guid |-> post_url,
          pubDate |-> format_datetime(IF parsed.kind = "None" THEN NOW ELSE parsed.value),
          description |-> desc, image_url |-> image_url]

\* lines 184-203
TitledPage(post_url, pg, title) ==
    IF title = <<>> THEN NoRecord
    ELSE PostRecord(post_url, title, TruncateDesc(ResolveDesc(pg)),
                    Strip(get_meta(pg.og_image), Whitespace),
                    parse_date_es(TextAll(pg)))

\* parse_post after the fetch succeeded (lines 163-212)
ParsePage(post_url, pg) == TitledPage(post_url, pg, ResolveTitle(pg))

\* r is what fetch(post_url) did: [ok |-> FALSE] when it raised
parse_post(post_url, r) ==
    IF ~r.ok THEN parse_post_except ELSE ParsePage(post_url, r.pg)

----------------------------------------------------------------------------
(* Feed builder                                                            *)

\* s.replace(old, new)
RECURSIVE Replace(_, _, _)
Replace(s, old, new) ==
    IF Len(s) < Len(old) THEN s
    ELSE IF StartsWith(s, old) THEN new \o Replace(SubSeq(s, Len(old) + 1, Len(s)), old, new)
    ELSE <<Head(s)>> \o Replace(Tail(s), old, new)

\* html.escape(s), quote=True
html_escape(s) ==
    LET a == Replace(s, <<"&">>, <<"&","a","m","p",";">>)
        b == Replace(a, <<"<">>, <<"&","l","t",";">>)
        c == Replace(b, <<">">>, <<"&","g","t",";">>)
        d == Replace(c, <<"\"">>, <<"&","q","u","o","t",";">>)
    IN  Replace(d, <<"'">>, <<"&","#","x","2","7",";">>)

esc_cdata(s) == Replace(s, <<"]","]",">">>, <<"]","]","]","]",">","<","!","[","C","D","A","T","A","[",">">>)

guess_image_mime(url) ==
    LET u == SplitFirst(SplitFirst(Lower(url), "?"), "#")
    IN  IF EndsWith(u, <<".","p","n","g">>) THEN <<"i","m","a","g","e","/","p","n","g">>
        ELSE IF EndsWith(u, <<".","w","e","b","p">>) THEN <<"i","m","a","g","e","/","w","e","b","p">>
        ELSE IF EndsWith(u, <<".","g","i","f">>) THEN <<"i","m","a","g","e","/","g","i","f">>
        ELSE IF EndsWith(u, <<".","s","v","g">>) THEN <<"i","m","a","g","e","/","s","v","g","+","x","m","l">>
        ELSE <<"i","m","a","g","e","/","j","p","e","g">>

\* lines 236-237
ImgHtml(img_url, title) ==
    IF StartsWith(img_url, <<"h","t","t","p">>)
    THEN Concat(<< <<"<","p",">","<","i","m","g"," ","s","r","c","=","\"">>, html_escape(img_url),
                   <<"\""," ","a","l","t","=","\"">>, html_escape(title), <<"\""," ","/",">","<","/","p",">">> >>)
    ELSE <<>>

Enclosure(img_url) ==
    IF StartsWith(img_url, <<"h","t","t","p">>)
    THEN Concat(<< <<"<","e","n","c","l","o","s","u","r","e"," ","u","r","l","=","\"">>, html_escape(img_url),
                   <<"\""," ","t","y","p","e","=","\"">>, guess_image_mime(img_url), <<"\""," ","/",">">> >>)
    ELSE <<>>

\* line 240
DescriptionHtml(img_html, desc_text) ==
    IF desc_text # <<>> THEN Concat(<<img_html, <<"<","p",">">>, desc_text, <<"<","/","p",">">>>>)
    ELSE img_html

\* one <item> element (lines 225-252), by its child elements
RssItem(it) ==
    [title       |-> esc_cdata(it.title),
     link        |-> html_escape(it.link),
     guid        |-> html_escape(it.guid),
     pubDate     |-> it.pubDate,
     description |-> DescriptionHtml(ImgHtml(Strip(it.image_url, Whitespace), it.title),
                                     esc_cdata(it.description)),
     enclosure   |-> Enclosure(Strip(it.image_url, Whitespace))]

RssItemsReversed(its) == [i \in 1..Len(its) |-> RssItem(its[Len(its) + 1 - i])]

\* the loop of build_rss: one element per record, in input order
RssItems(its) == [i \in 1..Len(its) |-> RssItem(its[i])]

\* the document, by its channel's lastBuildDate and <item> elements
build_rss(its) ==
    [kind |-> "rss", lastBuildDate |-> format_datetime(NOW), items |-> RssItems(its)]

----------------------------------------------------------------------------
(* Pages a post URL can answer with                                        *)

Pg(og_title, h1, title, og_description, description, p, og_image, rest) ==
    [og_title |-> og_title, h1 |-> h1, title |-> title,
     og_description |-> og_description, description |-> description, p |-> p,
     og_image |-> og_image, rest |-> rest]

\* social metadata, a dated byline
PAGE_OG ==
    Pg(<<" ","H","o","l","a"," ">>, <<<<"o","t","r","o">>>>, <<<<"t">>>>, <<"a","b"," ","c","d">>, <<"z","z">>, <<>>,
       <<"h","t","t","p",":","/","/","i",".","c","o","m","/","a",".","P","N","G","?","w","=","1">>, <<<<"P","u","b","l","i","c","a","d","o"," ","e","l"," ","2","7"," ","e","n","e","r","o",","," ","2","0","2","6"," ","p","o","r"," ","x">>>>)

\* heading only, no date anywhere
PAGE_H1 ==
    Pg(<<>>, <<<<" ">>, <<" ","H","O","L","A"," ">>>>, <<<<"t">>>>, <<>>, <<>>, <<<<"a","b","c">>>>, <<>>, <<>>)

\* <title> only, a month name the table does not hold
PAGE_TITLE ==
    Pg(<<>>, <<>>, <<<<"a","]","]",">">>, <<"b"," ">>>>, <<>>, <<"a","b","c","d">>, <<<<"x">>>>, <<"/","r","e","l",".","p","n","g">>,
       <<<<"5"," ","f","o","o",","," ","2","0","2","6">>>>)

\* no title source at all
PAGE_NO_TITLE ==
    Pg(<<>>, <<<<" "," ">>>>, <<>>, <<"d">>, <<>>, <<>>, <<>>, <<<<"3","1"," ","a","b","r","i","l",","," ","2","0","2","6">>>>)

\* a date-shaped byline that is no calendar date
PAGE_DAY_31 ==
    Pg(<<"T">>, <<>>, <<>>, <<>>, <<>>, <<>>, <<>>, <<<<"3","1"," ","a","b","r","i","l",","," ","2","0","2","6">>>>)

PAGE_DAY_0 ==
    Pg(<<>>, <<<<"T">>>>, <<>>, <<>>, <<>>, <<>>, <<>>, <<<<"e","l"," ","0"," ","m","a","y","o",","," ","2","0","2","6">>>>)

PAGE_YEAR_0 ==
    Pg(<<>>, <<>>, <<<<"T">>>>, <<>>, <<>>, <<>>, <<>>, <<<<"1"," ","m","a","y","o"," ",","," ","0","0","0","0">>>>)

PostPages ==
    {PAGE_OG, PAGE_H1, PAGE_TITLE, PAGE_NO_TITLE, PAGE_DAY_31, PAGE_DAY_0, PAGE_YEAR_0}

----------------------------------------------------------------------------
(* main()                                                                  *)

\* line 281
ItemKey(it) == <<it.link, Lower(Strip(it.title, Whitespace))>>

CapExceeded(its) == Len(its) > MAX_ITEMS

NeverCapped(its) == FALSE

\* line 287
CapReached(its) == Len(its) >= MAX_ITEMS

PrependItem(its, it) == <<it>> \o its

\* line 286
AppendItem(its, it) == Append(its, it)

HomeFetchSwallowed == [pc |-> "loop", error |-> "none"]

\* line 269: fetch(SITE) is called outside any try; what it raises ends main()
HomeFetchRaised == [pc |-> "aborted", error |-> "RequestException"]

Init ==
    /\ pc = "start" /\ urls = <<>> /\ idx = 0 /\ page = "none" /\ items = <<>>
    /\ seen = {} /\ fetched = <<>> /\ outfile = OldFile /\ writes = 0
    /\ error = "none" /\ arg = "none" /\ res = "none"

\* lines 269-273: the home page is fetched and its links extracted
FetchHomeOk ==
    /\ pc = "start"
    /\ \E home \in HomePages : urls' = extract_post_urls_from_home(home)
    /\ fetched' = Append(fetched, [url |-> SITE, ok |-> TRUE])
    /\ pc' = "loop"
    /\ UNCHANGED <<idx, page, items, seen, outfile, writes, error, arg, res>>

\* line 269: fetch(SITE) raises (transport failure, non-2xx status, timeout)
FetchHomeFail ==
    /\ pc = "start"
    /\ fetched' = Append(fetched, [url |-> SITE, ok |-> FALSE])
    /\ pc' = HomeFetchRaised.pc
    /\ error' = HomeFetchRaised.error
    /\ UNCHANGED <<urls, idx, page, items, seen, outfile, writes, arg, res>>

\* lines 275-276, 158: the loop takes the next candidate and fetch answers
FetchPostOk ==
    /\ pc = "loop" /\ idx < Len(urls)
    /\ idx' = idx + 1
    /\ fetched' = Append(fetched, [url |-> urls[idx + 1], ok |-> TRUE])
    /\ \E pg \in PostPages : page' = [ok |-> TRUE, pg |-> pg]
    /\ pc' = "fetched"
    /\ UNCHANGED <<urls, items, seen, outfile, writes, error, arg, res>>

\* lines 275-276, 158: the loop takes the next candidate and fetch raises
FetchPostFail ==
    /\ pc = "loop" /\ idx < Len(urls)
    /\ idx' = idx + 1
    /\ fetched' = Append(fetched, [url |-> urls[idx + 1], ok |-> FALSE])
    /\ page' = [ok |-> FALSE, pg |-> "none"]
    /\ pc' = "fetched"
    /\ UNCHANGED <<urls, items, seen, outfile, writes, error, arg, res>>

\* lines 277-288: the loop body, given what parse_post returned or raised
HandleResult(it) ==
    CASE it.kind = "raise" ->
           /\ pc' = "aborted" /\ error' = it.exc
           /\ UNCHANGED <<items, seen>>
      [] it.kind = "None" ->
           /\ pc' = "loop"
           /\ UNCHANGED <<items, seen, error>>
      [] it.kind = "record" ->
           IF ItemKey(it) \in seen
           THEN /\ pc' = "loop"
                /\ UNCHANGED <<items, seen, error>>
           ELSE /\ seen' = seen \cup {ItemKey(it)}
                /\ items' = AppendItem(items, it)
                /\ pc' = IF CapReached(items') THEN "build" ELSE "loop"
                /\ UNCHANGED error

\* lines 159-212, 277-288: the rest of parse_post and of the loop body
HandlePost ==
    /\ pc = "fetched"
    /\ HandleResult(parse_post(urls[idx], page))
    /\ page' = "none"
    /\ UNCHANGED <<urls, idx, fetched, outfile, writes, arg, res>>

\* line 275: the candidates are used up
LoopEnd ==
    /\ pc = "loop" /\ idx = Len(urls)
    /\ pc' = "build"
    /\ UNCHANGED <<urls, idx, page, items, seen, fetched, outfile, writes, error, arg, res>>

\* lines 290-295
WriteFeed ==
    /\ pc = "build"
    /\ outfile' = build_rss(items)
    /\ writes' = writes + 1
    /\ pc' = "done"
    /\ UNCHANGED <<urls, idx, page, items, seen, fetched, error, arg, res>>

\* line 292: open(OUTFILE, "w") raises
WriteFeedFail ==
    /\ pc = "build"
    /\ pc' = "aborted" /\ error' = "OSError"
    /\ UNCHANGED <<urls, idx, page, items, seen, fetched, outfile, writes, arg, res>>

Next ==
    \/ FetchHomeOk \/ FetchHomeFail
    \/ FetchPostOk \/ FetchPostFail \/ HandlePost
    \/ LoopEnd \/ WriteFeed \/ WriteFeedFail

Spec == Init /\ [][Next]_vars

----------------------------------------------------------------------------
(* parse_post called on a page whose description is the input               *)

MaxDescLen == 5    \* characters of a description

DescInputs == SeqsUpTo({"a", "b", " "}, MaxDescLen)

DescPages ==
    {Pg(<<"T">>, <<>>, <<>>, d, <<>>, <<>>, <<>>, <<>>) : d \in DescInputs}
        \cup {Pg(<<"T">>, <<>>, <<>>, <<>>, <<>>, <<d>>, <<>>, <<>>) : d \in DescInputs}

InitPost == pc = "call" /\ arg \in DescPages /\ res = "none" /\ IdleMain

CallParsePost ==
    /\ pc = "call"
    /\ res' = parse_post(POST_A, [ok |-> TRUE, pg |-> arg])
    /\ pc' = "ret"
    /\ UNCHANGED <<arg, mainVars>>

SpecPost == InitPost /\ [][CallParsePost]_vars

----------------------------------------------------------------------------
(* Properties                                                              *)

\* the candidate whose fetch is being handled
Current == urls[idx]

\* position of the first occurrence of x in s
FirstIndex(s, x) == CHOOSE i \in 1..Len(s) : s[i] = x /\ \A j \in 1..(i - 1) : s[j] # x

FetchFailedHere == pc = "fetched" /\ ~page.ok

\* no accepted record has the link of a candidate whose fetch raised
C1_FailedFetchLeavesNoRecord ==
    \A i \in 2..Len(fetched) :
        ~fetched[i].ok => \A k \in 1..Len(items) : items[k].link # fetched[i].url

\* handling a fetch that raised: back to the loop head, nothing else changed
C1_FailedFetchStep ==
    FetchFailedHere =>
        /\ pc' = "loop" /\ idx' = idx /\ items' = items /\ seen' = seen
        /\ error' = "none" /\ outfile' = outfile /\ writes' = writes

\* C1: a candidate whose fetch raised gives no record, the loop goes on to the
\* next candidate with nothing else changed, and the run is not aborted by it.
C1_PostFetchFailureRecovered ==
    [](C1_FailedFetchLeavesNoRecord) /\ [][C1_FailedFetchStep]_vars

\* a run that wrote a feed holding the record of a candidate fetched after one
\* whose fetch raised
C1_Witness ==
    /\ pc = "done" /\ outfile.kind = "rss" /\ Len(outfile.items) >= 1
    /\ \E i, j \in 2..Len(fetched) :
          i < j /\ ~fetched[i].ok /\ fetched[j].ok /\ items[1].link = fetched[j].url

TitledPageHere == pc = "fetched" /\ page.ok /\ ResolveTitle(page.pg) # <<>>

\* C2: for a fetched page with a resolvable title, whatever its text holds,
\* parse_date_es yields a timestamp or no result and the run is not aborted.
C2_DateNeverFails ==
    [][TitledPageHere =>
          /\ parse_date_es(TextAll(page.pg)).kind \in {"datetime", "None"}
          /\ pc' # "aborted" /\ error' = "none"]_vars

\* C3: the accumulated records, and the items of the feed written, never
\* number more than MAX_ITEMS.
C3_AtMostMaxItems ==
    /\ Len(items) <= MAX_ITEMS
    /\ outfile.kind = "rss" => Len(outfile.items) <= MAX_ITEMS

\* the cap was hit with candidates left over, and the feed written
C3_Witness ==
    /\ pc = "done" /\ idx < Len(urls)
    /\ outfile.kind = "rss" /\ Len(outfile.items) = MAX_ITEMS

LoopFinished == idx = Len(urls) \/ Len(items) >= MAX_ITEMS

\* C4: when fetch(SITE) raises the run is aborted with that error, no post is
\* fetched and OUTFILE is left as it was; OUTFILE is written at most once, and
\* only after the loop over the candidates has finished.
C4_HomeFailureFatal ==
    /\ (Len(fetched) >= 1 /\ ~fetched[1].ok) =>
          /\ pc = "aborted" /\ error = "RequestException"
          /\ Len(fetched) = 1 /\ writes = 0 /\ outfile = OldFile
    /\ writes <= 1
    /\ writes = 0 => outfile = OldFile
    /\ writes = 1 => (pc = "done" /\ fetched[1].ok /\ LoopFinished)

C4_Witness == pc = "aborted" /\ Len(fetched) = 1 /\ ~fetched[1].ok /\ writes = 0

\* the pair main() compares records by, on the normalized link
C5_Pair(it) == <<normalize_url(it.link), Lower(Strip(it.title, Whitespace))>>

C5_NoTwoAlike ==
    /\ \A i, j \in 1..Len(items) : i # j => C5_Pair(items[i]) # C5_Pair(items[j])
    /\ seen = {<<items[i].link, Lower(Strip(items[i].title, Whitespace))>> : i \in 1..Len(items)}
    /\ Cardinality(seen) = Len(items)

C5_DuplicateStep ==
    (/\ TitledPageHere
     /\ \E k \in 1..Len(items) :
           /\ items[k].link = Current
           /\ Lower(Strip(items[k].title, Whitespace))
                  = Lower(Strip(ResolveTitle(page.pg), Whitespace)))
        => (items' = items /\ seen' = seen)

C6_Candidates(targets) ==
    LET acc == SelectSeq(targets, is_post_url)
    IN  [i \in 1..Len(acc) |-> normalize_url(acc[i])]

C6_Trimmed(hrefs) == [i \in 1..Len(hrefs) |-> Strip(hrefs[i], Whitespace)]

\* out holds each value of cands exactly once, in order of first occurrence
C6_FirstOccurrences(out, cands) ==
    /\ \A i, j \in 1..Len(out) : i # j => out[i] # out[j]
    /\ Range(out) = Range(cands)
    /\ \A i, j \in 1..Len(out) : i < j => FirstIndex(cands, out[i]) < FirstIndex(cands, out[j])
    /\ \A i \in 1..Len(out) : "?" \notin Range(out[i]) /\ "#" \notin Range(out[i])

\* C6 as stated: the result is the first occurrences of the normalized forms of
\* the targets that is_post_url accepts.
C6_AsStated == pc = "ret" => C6_FirstOccurrences(res, C6_Candidates(arg))

\* C6, amended: the same of the targets with surrounding whitespace removed.
C6_ExtractFirstOccurrences ==
    pc = "ret" => C6_FirstOccurrences(res, C6_Candidates(C6_Trimmed(arg)))

\* a target repeated with a query string after another target, kept once
C6_Witness ==
    /\ pc = "ret" /\ Len(res) = 2 /\ res[1] = POST_A
    /\ \E i, j \in 1..Len(arg) :
          /\ i + 1 < j /\ arg[i] = POST_A /\ arg[j] = POST_A \o <<"?","u","t","m","=","1">>
          /\ normalize_url(arg[i + 1]) = res[2]

\* s.split("/")
RECURSIVE Segments(_)
Segments(path) ==
    IF "/" \notin Range(path) THEN <<path>>
    ELSE <<SplitFirst(path, "/")>>
             \o Segments(SubSeq(path, Len(SplitFirst(path, "/")) + 2, Len(path)))

C7_BlockedWords == {<<"c","a","t","e","g","o","r","y">>, <<"t","a","g">>, <<"p","a","g","e">>, <<"a","u","t","h","o","r">>}

C7_Rejected(url) ==
    \/ ~StartsWith(url, SITE)
    \/ LET path == PostPath(url)
           segs == Segments(path)
       IN  \/ path = <<>>
           \/ segs[1] \in C7_BlockedWords
           \/ StartsWith(path, <<"w","p","-">>)
           \/ \E i \in 1..Len(segs) : segs[i] = <<"p","a","g","e">>
           \/ path \in BLOCKED_SLUGS
           \/ \E ext \in ASSET_EXTENSIONS : EndsWith(segs[Len(segs)], ext)

\* C7: is_post_url is false for a URL outside the site and for a site URL
\* whose path is empty, begins with a blocked prefix, holds a pagination
\* segment, is a blocked slug or ends in an asset extension; true otherwise.
C7_ClassifierAsStated == pc = "ret" => (res = ~C7_Rejected(arg))

\* the description parse_post resolved, trimmed
C8_Resolved == Strip(ResolveDesc(arg), Whitespace)

\* C8 as stated: over the maximum, exactly the first DESC_MAX characters and
\* one ellipsis; otherwise unchanged.
C8_AsStated ==
    pc = "ret" =>
        res.description =
            IF Len(C8_Resolved) > DESC_MAX
            THEN Append(SubSeq(C8_Resolved, 1, DESC_MAX), ELLIPSIS)
            ELSE C8_Resolved

C8_CutOf(out, d) ==
    /\ Len(out) >= 1 /\ Len(out) <= DESC_MAX + 1
    /\ out[Len(out)] = ELLIPSIS
    /\ SubSeq(out, 1, Len(out) - 1) = SubSeq(d, 1, Len(out) - 1)
    /\ Len(out) >= 2 => out[Len(out) - 1] \notin Whitespace
    /\ \A k \in Len(out)..DESC_MAX : d[k] \in Whitespace

\* C8, amended: over the maximum, the first DESC_MAX characters less their
\* trailing whitespace, then one ellipsis; otherwise unchanged.
C8_TruncatedDescription ==
    pc = "ret" =>
        IF Len(C8_Resolved) > DESC_MAX
        THEN C8_CutOf(res.description, C8_Resolved)
        ELSE res.description = C8_Resolved

\* a description over the maximum whose cut leaves fewer than DESC_MAX characters
C8_Witness ==
    /\ pc = "ret" /\ Len(C8_Resolved) > DESC_MAX
    /\ Len(res.description) < DESC_MAX + 1

PostFetchStep == Len(fetched) >= 1 /\ Len(fetched') = Len(fetched) + 1

C9_FetchedOnce ==
    \A i, j \in 2..Len(fetched) : i # j => fetched[i].url # fetched[j].url

\* with MAX_ITEMS records accepted the loop has been left
C9_CapEndsLoop == Len(items) >= MAX_ITEMS => pc \in {"build", "done", "aborted"}

C9_FetchStep ==
    /\ PostFetchStep => Len(items) < MAX_ITEMS
    /\ Len(items') >= Len(items)

\* C9: a post is fetched only while fewer than MAX_ITEMS records are accepted,
\* the accepted records never become fewer, the loop is left once MAX_ITEMS
\* are accepted, and no candidate is fetched twice.
C9_NoFetchAfterCap ==
    [](C9_FetchedOnce /\ C9_CapEndsLoop) /\ [][C9_FetchStep]_vars

\* the cap is reached while a candidate has not been fetched
C9_Witness ==
    /\ pc = "build" /\ Len(items) = MAX_ITEMS
    /\ idx < Len(urls) /\ Len(fetched) = idx + 1

\* the character data an XML reader gets from escaped text
XmlUnescape(s) ==
    LET a == Replace(s, <<"&","l","t",";">>, <<"<">>)
        b == Replace(a, <<"&","g","t",";">>, <<">">>)
        c == Replace(b, <<"&","q","u","o","t",";">>, <<"\"">>)
        d == Replace(c, <<"&","#","x","2","7",";">>, <<"'">>)
    IN  Replace(d, <<"&","a","m","p",";">>, <<"&">>)

\* C10: the posts are fetched in the candidates' order, the accepted records
\* are a subsequence of the candidates, and the feed written has one item per
\* record, in the records' order, each with its record's link.
C10_FeedInDiscoveryOrder ==
    /\ \A i \in 2..Len(fetched) : i - 1 <= Len(urls) /\ fetched[i].url = urls[i - 1]
    /\ \A i \in 1..Len(items) : items[i].link \in Range(urls)
    /\ \A i, j \in 1..Len(items) :
          i < j => FirstIndex(urls, items[i].link) < FirstIndex(urls, items[j].link)
    /\ outfile.kind = "rss" =>
          /\ Len(outfile.items) = Len(items)
          /\ \A i \in 1..Len(items) : XmlUnescape(outfile.items[i].link) = items[i].link

\* a feed of two items, one of a link that is written escaped, with a
\* candidate between them left out
C10_Witness ==
    /\ pc = "done" /\ Len(outfile.items) = 2 /\ idx = 3
    /\ items[1].link = urls[1] /\ items[2].link = urls[3]
    /\ outfile.items[2].link # items[2].link

=============================================================================
